---- MODULE Spec2Model ----
(***************************************************************************)
(* A model of larve.py, the hive daemon.  There is one process per node; a *)
(* node runs as a Queen (HTTP server, election driver thread raft(),       *)
(* liveness monitor thread queen_heartbeat()) or as a Drone (HTTP server   *)
(* only).  The module-level globals of a process are functions over Nodes. *)
(***************************************************************************)
EXTENDS Integers, FiniteSets, Sequences, TLC

VARIABLES
    larve_mode,             \* larve.py:56,496-497  Mode of each process
    queens,                 \* larve.py:71,509      peer list of each process
    raft_state,             \* larve.py:62
    raft_term,              \* larve.py:63
    raft_election_timeout,  \* larve.py:61,141
    last_heartbeat,         \* larve.py:79
    pc,                     \* position of the raft() thread in its loop
    todo,                   \* do_list_threaded: peers whose thread has not sent yet
    ret_list,               \* do_list_threaded: ret_list of the vote round
    num_votes,              \* raft(): local num_votes
    msgs,                   \* requests of peer threads that are in flight
    drones,                 \* larve.py:67   registry: address -> name
    drones_lock,            \* larve.py:68   TRUE while held
    mon_pc,                 \* position of the queen_heartbeat() thread
    to_remove,              \* queen_heartbeat(): local to_remove
    now,                    \* the clock read by get_time_millis()
    up,                     \* whether the process is running
    served,                 \* whether any HTTP server has served a request yet
    event                   \* the step just taken, when it is a handler run or the
                            \* end of a round or of a monitoring cycle

config == <<larve_mode, queens>>
election == <<raft_state, raft_term, raft_election_timeout, last_heartbeat>>
driver == <<pc, todo, ret_list, num_votes>>
registry == <<drones, drones_lock>>
monitor == <<mon_pc, to_remove>>

vars == <<config, election, driver, msgs, registry, monitor, now, up, served, event>>

Nodes == {1, 2, 3}

\* ---- bounds of the model ------------------------------------------------
MaxTerm == 2
MaxTime == 400
MaxCrashes == 1

\* ---- program constants --------------------------------------------------
\* random.randint(150, 300): the clock of the model advances in steps of
\* ClockStep, and the model draws the timeout from the values listed here
ElectionTimeoutMin == 150
ElectionTimeouts == {ElectionTimeoutMin}
\* one step of the clock is longer than the timeout drawn
ClockStep == ElectionTimeoutMin + 50
max_retry == 5

FOLLOWER == "FOLLOWER"
CANDIDATE == "CANDIDATE"
LEADER == "LEADER"

DRONE == "DRONE"
QUEEN == "QUEEN"

\* ---- start-up configurations (--queen, --queen-list) --------------------
Cluster3 == [mode |-> [n \in Nodes |-> QUEEN],
             queens |-> [n \in Nodes |-> Nodes \ {n}]]
Pair == [mode |-> [n \in Nodes |-> IF n = 3 THEN DRONE ELSE QUEEN],
         queens |-> [n \in Nodes |-> IF n = 3 THEN {} ELSE {1, 2} \ {n}]]
Solo == [mode |-> [n \in Nodes |-> IF n = 1 THEN QUEEN ELSE DRONE],
         queens |-> [n \in Nodes |-> {}]]

\* self_ip + ":" + str(args.port) of each process
Address(n) == CASE n = 1 -> "127.0.0.1:8080"
                [] n = 2 -> "127.0.0.1:8081"
                [] OTHER -> "127.0.0.1:8082"
HostOf(a) == CHOOSE n \in Nodes : Address(n) = a

\* hashlib.sha1(address.encode()).hexdigest() on the addresses of the model
sha1_hexdigest(a) ==
    CASE a = "127.0.0.1:8080" -> "56852a5456d1b09e1eb11c0ca39d8fbce6480106"
      [] a = "127.0.0.1:8081" -> "ebf2f6fc51dfcda99cba2d1581ed77c538fd4edc"
      [] OTHER -> "6a6ae4930dc53b6aad2330d61ac7265044d2218d"

\* ---- request bodies -----------------------------------------------------
\* A JSON body is a function from its keys to values; "key in request.json"
\* is membership in its DOMAIN, and the empty body is falsy.
Has(body, key) == key \in DOMAIN body

EmptyRegistry == [a \in {} |-> ""]

NoEvent == [path |-> "none", node |-> 0, wf |-> FALSE, term |-> 0, status |-> 0,
            old_state |-> "none", old_term |-> 0, old_hb |-> 0, votes |-> 0,
            text |-> "", address |-> "", reported |-> 0,
            old_drones |-> EmptyRegistry, fwd |-> "", fwd_status |-> 0]

get_time_millis == now

RECURSIVE SumOver(_, _)
SumOver(f, S) == IF S = {} THEN 0
                 ELSE LET x == CHOOSE y \in S : TRUE
                      IN f[x] + SumOver(f, S \ {x})

\* line 149: int(math.ceil((len(queens) + 1) / 2.0))
votes_needed(n) == (Cardinality(queens[n]) + 1 + 1) \div 2

InFlight(n) == {m \in msgs : m.from = n}

Boot(c) ==
    /\ larve_mode = c.mode /\ queens = c.queens
    /\ raft_state = [n \in Nodes |-> FOLLOWER]
    /\ raft_term = [n \in Nodes |-> 0]
    /\ raft_election_timeout \in [Nodes -> ElectionTimeouts]
    /\ last_heartbeat = [n \in Nodes |-> 0]
    /\ pc = [n \in Nodes |-> "loop"]
    /\ todo = [n \in Nodes |-> {}]
    /\ ret_list = [n \in Nodes |-> [p \in c.queens[n] |-> 0]]
    /\ num_votes = [n \in Nodes |-> 0]
    /\ msgs = {}
    /\ drones = [n \in Nodes |-> EmptyRegistry]
    /\ drones_lock = [n \in Nodes |-> FALSE]
    /\ mon_pc = [n \in Nodes |-> "sleep"]
    /\ to_remove = [n \in Nodes |-> {}]
    /\ now = 0
    /\ up = [n \in Nodes |-> TRUE]
    /\ served = FALSE
    /\ event = NoEvent

\* two Queens and a Drone, or one Queen and two Drones
Init == Boot(Pair) \/ Boot(Solo)

\* the threads of a Queen process that is running
Driver(n) == larve_mode[n] = QUEEN /\ up[n]

\* threads that are pre-empted anywhere, lock sections apart
Cooperative_preemptive(p) == TRUE

\* lines 3-5: monkey.patch_all() turns the threads of a process into greenlets
\* of one OS thread, and a greenlet runs until it blocks.  raft() blocks in
\* time.sleep (137, 169) and in the join of do_list_threaded (145, 168); the
\* locks it takes are never held across a blocking call, so acquire() and
\* release() do not switch.  A handler or the monitor of p runs only then.
Cooperative(p) == pc[p] \in {"loop", "votes", "append"}

\* ---- the clock ----------------------------------------------------------
Tick ==
    /\ now + ClockStep <= MaxTime
    /\ now' = now + ClockStep
    /\ event' = NoEvent
    /\ UNCHANGED <<config, election, driver, msgs, registry, monitor, up, served>>

\* ---- raft(): the election driver ---------------------------------------
\* lines 132-135: a Follower whose timeout elapsed becomes Candidate
ElectionTimeout(n) ==
    /\ Driver(n) /\ pc[n] = "loop"
    /\ raft_state[n] = FOLLOWER
    /\ (get_time_millis - last_heartbeat[n]) > raft_election_timeout[n]
    /\ raft_term[n] < MaxTerm
    /\ raft_state' = [raft_state EXCEPT ![n] = CANDIDATE]
    /\ pc' = [pc EXCEPT ![n] = "cand"]
    /\ event' = NoEvent
    /\ UNCHANGED <<config, raft_term, raft_election_timeout, last_heartbeat,
                   todo, ret_list, num_votes, msgs, registry, monitor, now, up, served>>

\* lines 139-145: candidate entry, or the round is skipped when an
\* /append_entries demoted the node since line 134
CandidateEntry(n) ==
    /\ Driver(n) /\ pc[n] = "cand"
    /\ IF raft_state[n] = CANDIDATE
       THEN /\ raft_term[n] < MaxTerm
            /\ \E t \in ElectionTimeouts :
                  raft_election_timeout' = [raft_election_timeout EXCEPT ![n] = t]
            /\ raft_term' = [raft_term EXCEPT ![n] = raft_term[n] + 1]
            /\ todo' = [todo EXCEPT ![n] = queens[n]]
            /\ ret_list' = [ret_list EXCEPT ![n] = [p \in queens[n] |-> 0]]
            /\ pc' = [pc EXCEPT ![n] = "votes"]
       ELSE /\ pc' = [pc EXCEPT ![n] = "loop"]
            /\ UNCHANGED <<raft_election_timeout, raft_term, todo, ret_list>>
    /\ event' = NoEvent
    /\ UNCHANGED <<config, raft_state, last_heartbeat, num_votes, msgs, registry,
                   monitor, now, up, served>>

\* lines 176, 285-304: the thread of peer p builds its payload from the
\* raft_term of that moment and posts it; an unreachable peer counts 0
SendVoteRequest(n, p) ==
    /\ Driver(n) /\ pc[n] = "votes"
    /\ p \in todo[n]
    /\ todo' = [todo EXCEPT ![n] = todo[n] \ {p}]
    /\ msgs' = IF up[p]
               THEN msgs \cup {[type |-> "request_vote", from |-> n, to |-> p,
                                term |-> raft_term[n]]}
               ELSE msgs
    /\ event' = NoEvent
    /\ UNCHANGED <<config, election, pc, ret_list, num_votes, registry, monitor,
                   now, up, served>>

\* a tally that writes the time of the start of the process
Tally_stale(n) ==
    /\ Driver(n) /\ pc[n] = "votes"
    /\ todo[n] = {} /\ InFlight(n) = {}
    /\ num_votes' = [num_votes EXCEPT ![n] = SumOver(ret_list[n], queens[n]) + 1]
    /\ last_heartbeat' = [last_heartbeat EXCEPT ![n] = 0]
    /\ pc' = [pc EXCEPT ![n] = "check"]
    /\ event' = NoEvent
    /\ UNCHANGED <<config, raft_state, raft_term, raft_election_timeout,
                   todo, ret_list, msgs, registry, monitor, now, up, served>>

\* lines 145-150: all threads joined; tally, vote for ourselves
Tally(n) ==
    /\ Driver(n) /\ pc[n] = "votes"
    /\ todo[n] = {} /\ InFlight(n) = {}
    /\ num_votes' = [num_votes EXCEPT ![n] = SumOver(ret_list[n], queens[n]) + 1]
    /\ last_heartbeat' = [last_heartbeat EXCEPT ![n] = get_time_millis]
    /\ pc' = [pc EXCEPT ![n] = "check"]
    /\ event' = NoEvent
    /\ UNCHANGED <<config, raft_state, raft_term, raft_election_timeout,
                   todo, ret_list, msgs, registry, monitor, now, up, served>>

\* lines 153-156: first lock section, votes are dropped when demoted
CheckDemoted(n) ==
    /\ Driver(n) /\ pc[n] = "check"
    /\ num_votes' = [num_votes EXCEPT ![n] =
                        IF raft_state[n] = FOLLOWER THEN 0 ELSE num_votes[n]]
    /\ pc' = [pc EXCEPT ![n] = "decide"]
    /\ event' = NoEvent
    /\ UNCHANGED <<config, election, todo, ret_list, msgs, registry, monitor,
                   now, up, served>>

\* line 160
HasMajority(votes, needed) == votes > needed

\* lines 159-166: second lock section, the round's final state assignment
Decide(n) ==
    /\ Driver(n) /\ pc[n] = "decide"
    /\ raft_state' = [raft_state EXCEPT ![n] =
                        IF HasMajority(num_votes[n], votes_needed(n))
                        THEN LEADER ELSE FOLLOWER]
    /\ pc' = [pc EXCEPT ![n] = "loop"]
    /\ event' = [NoEvent EXCEPT !.path = "raft", !.node = n,
                                !.old_state = raft_state[n],
                                !.old_term = raft_term[n],
                                !.old_hb = last_heartbeat[n],
                                !.votes = num_votes[n]]
    /\ UNCHANGED <<config, raft_term, raft_election_timeout, last_heartbeat,
                   todo, ret_list, num_votes, msgs, registry, monitor, now, up, served>>

\* lines 167-168: a Leader starts a heartbeat fan-out
LeaderTick(n) ==
    /\ Driver(n) /\ pc[n] = "loop"
    /\ raft_state[n] = LEADER
    /\ todo' = [todo EXCEPT ![n] = queens[n]]
    /\ pc' = [pc EXCEPT ![n] = "append"]
    /\ event' = NoEvent
    /\ UNCHANGED <<config, election, ret_list, num_votes, msgs, registry, monitor,
                   now, up, served>>

\* lines 227-240: the payload carries the raft_term of the moment of sending;
\* transport errors are swallowed
SendAppendEntries(n, p) ==
    /\ Driver(n) /\ pc[n] = "append"
    /\ p \in todo[n]
    /\ todo' = [todo EXCEPT ![n] = todo[n] \ {p}]
    /\ msgs' = IF up[p]
               THEN msgs \cup {[type |-> "append_entries", from |-> n, to |-> p,
                                term |-> raft_term[n]]}
               ELSE msgs
    /\ event' = NoEvent
    /\ UNCHANGED <<config, election, pc, ret_list, num_votes, registry, monitor,
                   now, up, served>>

\* lines 168-169: all heartbeat threads joined, sleep, next iteration
EndTick(n) ==
    /\ Driver(n) /\ pc[n] = "append"
    /\ todo[n] = {} /\ InFlight(n) = {}
    /\ pc' = [pc EXCEPT ![n] = "loop"]
    /\ event' = NoEvent
    /\ UNCHANGED <<config, election, todo, ret_list, num_votes, msgs, registry,
                   monitor, now, up, served>>

\* ---- HTTP handlers ------------------------------------------------------
\* the request a handler of process p has just served
Served(p, path, wf, status) ==
    [NoEvent EXCEPT !.path = path, !.node = p, !.wf = wf, !.status = status,
                    !.old_state = raft_state[p], !.old_term = raft_term[p],
                    !.old_hb = last_heartbeat[p], !.old_drones = drones[p]]

\* a grant that also accepts the term the Queen already has
VoteGranted_ge(term, current) == term >= current

\* line 342
VoteGranted(term, current) == term > current

request_vote_wf(body) == Has(body, "candidate") /\ Has(body, "term")

\* lines 331-348: the status /request_vote answers
request_vote_status(p, body) ==
    IF ~Has(body, "candidate") THEN 400
    ELSE IF ~Has(body, "term") THEN 400
    ELSE IF VoteGranted(body.term, raft_term[p]) THEN 200
    ELSE 300

\* lines 323-348
request_vote(p, body) ==
    LET status == request_vote_status(p, body) IN
    /\ last_heartbeat' = [last_heartbeat EXCEPT ![p] = get_time_millis]
    /\ raft_term' = IF status = 200
                    THEN [raft_term EXCEPT ![p] = body.term]
                    ELSE raft_term
    /\ served' = TRUE
    /\ event' = [Served(p, "/request_vote", request_vote_wf(body), status)
                    EXCEPT !.term = IF request_vote_wf(body) THEN body.term ELSE 0]
    /\ UNCHANGED <<raft_state, raft_election_timeout, registry>>

\* a Candidate that accepts entries of any term
AcceptEntries_any(entry_term, current) == TRUE

\* a Candidate that accepts only entries of a higher term
AcceptEntries_gt(entry_term, current) == entry_term > current

\* line 262
AcceptEntries(entry_term, current) == entry_term >= current

append_entries_wf(body) ==
    Has(body, "leader") /\ Has(body, "term") /\ Has(body, "entries")

\* lines 250-277: the status /append_entries answers
append_entries_status(p, body) ==
    IF ~append_entries_wf(body) THEN 400
    ELSE IF raft_state[p] = CANDIDATE /\ ~AcceptEntries(body.term, raft_term[p])
         THEN 400
    ELSE 200

\* an /append_entries that makes a node of any role a Follower of the term
\* it carries
append_entries_stepdown(p, body) ==
    LET status == append_entries_status(p, body) IN
    /\ last_heartbeat' = IF status = 200
                         THEN [last_heartbeat EXCEPT ![p] = get_time_millis]
                         ELSE last_heartbeat
    /\ raft_term' = IF status = 200 /\ body.term >= raft_term[p]
                    THEN [raft_term EXCEPT ![p] = body.term]
                    ELSE raft_term
    /\ raft_state' = IF status = 200 /\ body.term >= raft_term[p]
                     THEN [raft_state EXCEPT ![p] = FOLLOWER]
                     ELSE raft_state
    /\ served' = TRUE
    /\ event' = [Served(p, "/append_entries", append_entries_wf(body), status)
                    EXCEPT !.term = IF append_entries_wf(body) THEN body.term ELSE 0]
    /\ UNCHANGED <<raft_election_timeout, registry>>

\* lines 243-277
append_entries(p, body) ==
    LET status == append_entries_status(p, body) IN
    /\ last_heartbeat' = IF status = 200
                         THEN [last_heartbeat EXCEPT ![p] = get_time_millis]
                         ELSE last_heartbeat
    /\ raft_term' = IF status = 200 /\ raft_state[p] = CANDIDATE
                    THEN [raft_term EXCEPT ![p] = body.term]
                    ELSE raft_term
    /\ raft_state' = IF status = 200 /\ raft_state[p] = CANDIDATE
                     THEN [raft_state EXCEPT ![p] = FOLLOWER]
                     ELSE raft_state
    /\ served' = TRUE
    /\ event' = [Served(p, "/append_entries", append_entries_wf(body), status)
                    EXCEPT !.term = IF append_entries_wf(body) THEN body.term ELSE 0]
    /\ UNCHANGED <<raft_election_timeout, registry>>

\* lines 199-220
healthz(p) ==
    /\ last_heartbeat' = [last_heartbeat EXCEPT ![p] = get_time_millis]
    /\ served' = TRUE
    /\ event' = [Served(p, "/healthz", TRUE, 200)
                    EXCEPT !.reported = last_heartbeat'[p]]
    /\ UNCHANGED <<raft_state, raft_term, raft_election_timeout, registry>>

\* lines 404-413: the status /do_task answers
do_task_status(p, body) ==
    IF ~Has(body, "text") THEN 400
    ELSE IF larve_mode[p] = QUEEN THEN 400
    ELSE IF body.text # "" THEN 200
    ELSE 400

\* lines 402-413
do_task(p, body) ==
    /\ served' = TRUE
    /\ event' = [Served(p, "/do_task", Has(body, "text"), do_task_status(p, body))
                    EXCEPT !.text = IF Has(body, "text") THEN body.text ELSE ""]
    /\ UNCHANGED <<election, registry>>

\* a /register that does not look at the mode of the process
register_status_any_mode(p, body) ==
    IF ~Has(body, "address") THEN 400
    ELSE 200

\* lines 385-388
register_status(p, body) ==
    IF ~Has(body, "address") THEN 400
    ELSE IF larve_mode[p] = DRONE THEN 400
    ELSE 200

\* a registry that names a drone by its address
Registered_plain(d, address) ==
    [a \in DOMAIN d \cup {address} |->
        IF a = address THEN "drone-" \o address ELSE d[a]]

\* lines 391-393: drones[address] = 'drone-' + name
Registered(d, address) ==
    [a \in DOMAIN d \cup {address} |->
        IF a = address THEN "drone-" \o sha1_hexdigest(address) ELSE d[a]]

\* lines 379-397; drones_lock.acquire() waits while the lock is held
register(p, body) ==
    LET status == register_status(p, body) IN
    /\ status = 200 => ~drones_lock[p]
    /\ drones' = IF status = 200
                 THEN [drones EXCEPT ![p] = Registered(drones[p], body.address)]
                 ELSE drones
    /\ served' = TRUE
    /\ event' = [Served(p, "/register", Has(body, "address"), status)
                    EXCEPT !.address = IF Has(body, "address")
                                       THEN body.address ELSE ""]
    /\ UNCHANGED <<election, drones_lock>>

\* lines 358-375: the status /submit_task answers when random.choice picks
\* host; an exception of random.choice (empty registry) or of requests.post
\* (host unreachable) leaves the handler with a 500
submit_task_status(p, body, host) ==
    IF ~Has(body, "text") THEN 400
    ELSE IF larve_mode[p] = DRONE THEN 400
    ELSE IF DOMAIN drones[p] = {} THEN 500
    ELSE IF ~up[HostOf(host)] THEN 500
    ELSE 200

\* lines 352-375; an exception between acquire() and release() leaves the
\* lock held
submit_task(p, body, host) ==
    LET status == submit_task_status(p, body, host)
        picked == Has(body, "text") /\ larve_mode[p] # DRONE /\ DOMAIN drones[p] # {}
    IN
    /\ IF picked THEN host \in DOMAIN drones[p] ELSE host = ""
    /\ status # 400 => ~drones_lock[p]
    /\ drones_lock' = IF status = 500
                      THEN [drones_lock EXCEPT ![p] = TRUE]
                      ELSE drones_lock
    /\ served' = TRUE
    /\ event' = [Served(p, "/submit_task", Has(body, "text"), status)
                    EXCEPT !.text = IF Has(body, "text") THEN body.text ELSE "",
                           !.fwd = IF picked THEN host ELSE "",
                           !.fwd_status = IF status = 200
                                          THEN do_task_status(HostOf(host),
                                                              [text |-> body.text])
                                          ELSE 0]
    /\ UNCHANGED <<election, drones>>

\* ---- requests between Queens ------------------------------------------
\* lines 306-320: what send_vote_request returns for a response status
send_vote_request(status) ==
    IF status > 399 THEN 0 ELSE IF status > 299 THEN 0 ELSE 1

\* a peer's /request_vote serves the request of a candidate's thread
DeliverRequestVote(m) ==
    /\ m \in msgs /\ m.type = "request_vote" /\ up[m.to] /\ Cooperative(m.to)
    /\ LET body == [candidate |-> Address(m.from), term |-> m.term] IN
       /\ request_vote(m.to, body)
       /\ ret_list' = [ret_list EXCEPT ![m.from][m.to] =
                          send_vote_request(request_vote_status(m.to, body))]
    /\ msgs' = msgs \ {m}
    /\ UNCHANGED <<config, pc, todo, num_votes, monitor, now, up>>

\* a peer's /append_entries serves the heartbeat of a Leader's thread
DeliverAppendEntries(m) ==
    /\ m \in msgs /\ m.type = "append_entries" /\ up[m.to] /\ Cooperative(m.to)
    /\ append_entries(m.to, [leader |-> Address(m.from), term |-> m.term,
                             entries |-> << >>])
    /\ msgs' = msgs \ {m}
    /\ UNCHANGED <<config, driver, monitor, now, up>>

\* lines 300-304, 239-240: the request to a peer that stopped fails
TransportError(m) ==
    /\ m \in msgs /\ ~up[m.to]
    /\ msgs' = msgs \ {m}
    /\ event' = NoEvent
    /\ UNCHANGED <<config, election, driver, registry, monitor, now, up, served>>

\* ---- queen_heartbeat(): the liveness monitor ---------------------------
\* lines 190-195: send_heartbeat catches the exception of requests.get
send_heartbeat_raises(host) == FALSE

\* lines 94-109: the retry loop on one drone; the value of count after it
RECURSIVE probe(_, _, _)
probe(host, success, count) ==
    IF ~success /\ count < max_retry
    THEN IF send_heartbeat_raises(host)
         THEN probe(host, FALSE, count + 1)
         ELSE probe(host, TRUE, count)
    ELSE count

\* lines 90-112: a cycle of a Leader takes the lock and probes every drone;
\* the /healthz of a drone that answers sets its last_heartbeat (line 204)
MonitorProbe(n) ==
    /\ Driver(n) /\ mon_pc[n] = "sleep" /\ Cooperative(n)
    /\ raft_state[n] = LEADER
    /\ ~drones_lock[n]
    /\ drones_lock' = [drones_lock EXCEPT ![n] = TRUE]
    /\ to_remove' = [to_remove EXCEPT ![n] =
                        {k \in DOMAIN drones[n] : probe(k, FALSE, 1) >= max_retry}]
    /\ mon_pc' = [mon_pc EXCEPT ![n] = "evict"]
    /\ last_heartbeat' = [q \in Nodes |->
                             IF up[q] /\ Address(q) \in DOMAIN drones[n]
                             THEN get_time_millis ELSE last_heartbeat[q]]
    /\ served' = (served \/ \E q \in Nodes : up[q] /\ Address(q) \in DOMAIN drones[n])
    /\ event' = Served(n, "monitor:probe", TRUE, 0)
    /\ UNCHANGED <<config, raft_state, raft_term, raft_election_timeout, driver, msgs,
                   drones, now, up>>

\* lines 114-119: the eviction pass, then the lock is released
MonitorEvict(n) ==
    /\ Driver(n) /\ mon_pc[n] = "evict" /\ Cooperative(n)
    /\ drones' = [drones EXCEPT ![n] =
                     [a \in DOMAIN drones[n] \ to_remove[n] |-> drones[n][a]]]
    /\ drones_lock' = [drones_lock EXCEPT ![n] = FALSE]
    /\ mon_pc' = [mon_pc EXCEPT ![n] = "sleep"]
    /\ event' = Served(n, "monitor:evict", TRUE, 0)
    /\ UNCHANGED <<config, election, driver, msgs, to_remove, now, up, served>>

\* ---- requests of clients ----------------------------------------------
\* bodies that miss a required field
MalformedVote(i) == IF i = 1 THEN [candidate |-> "x"] ELSE [term |-> 1]

MalformedEntries(i) ==
    IF i = 1 THEN [leader |-> "x", term |-> 1]
    ELSE [leader |-> "x", entries |-> << >>]

\* bodies of /append_entries a client posts: two that miss a field, and a
\* well-formed one that carries the highest term of the model
EntriesBody(i) ==
    IF i \in 1..2 THEN MalformedEntries(i)
    ELSE [leader |-> "x", term |-> MaxTerm, entries |-> << >>]

\* bodies of /submit_task and /do_task
TaskBody(i) ==
    CASE i = 1 -> [task |-> "hello"]
      [] i = 2 -> [text |-> ""]
      [] OTHER -> [text |-> "hello"]

\* bodies of /register: the address of a node, or no address
RegisterBody(i) == IF i \in Nodes THEN [address |-> Address(i)] ELSE [host |-> "x"]

ClientHealthz(p) ==
    /\ up[p] /\ Cooperative(p)
    /\ healthz(p)
    /\ UNCHANGED <<config, driver, msgs, monitor, now, up>>

ClientRequestVote(p, i) ==
    /\ up[p] /\ Cooperative(p)
    /\ request_vote(p, MalformedVote(i))
    /\ UNCHANGED <<config, driver, msgs, monitor, now, up>>

ClientAppendEntries(p, i) ==
    /\ up[p] /\ Cooperative(p)
    /\ append_entries(p, EntriesBody(i))
    /\ UNCHANGED <<config, driver, msgs, monitor, now, up>>

ClientRegister(p, i) ==
    /\ up[p] /\ Cooperative(p)
    /\ i \in Nodes => larve_mode[i] = DRONE
    /\ register(p, RegisterBody(i))
    /\ UNCHANGED <<config, driver, msgs, monitor, now, up>>

ClientSubmitTask(p, i, host) ==
    /\ up[p] /\ Cooperative(p)
    /\ submit_task(p, TaskBody(i), host)
    /\ UNCHANGED <<config, driver, msgs, monitor, now, up>>

ClientDoTask(p, i) ==
    /\ up[p] /\ Cooperative(p)
    /\ do_task(p, TaskBody(i))
    /\ UNCHANGED <<config, driver, msgs, monitor, now, up>>

\* ---- the process is killed ---------------------------------------------
Crash(n) ==
    /\ up[n]
    /\ Cardinality({q \in Nodes : ~up[q]}) < MaxCrashes
    /\ up' = [up EXCEPT ![n] = FALSE]
    /\ event' = NoEvent
    /\ UNCHANGED <<config, election, driver, msgs, registry, monitor, now, served>>

\* ---- specifications -----------------------------------------------------
\* the threads of the Queens and the requests they send each other
NextCluster ==
    \/ Tick
    \/ \E n \in Nodes : ElectionTimeout(n)
    \/ \E n \in Nodes : CandidateEntry(n)
    \/ \E n \in Nodes, p \in Nodes : SendVoteRequest(n, p)
    \/ \E n \in Nodes : Tally(n)
    \/ \E n \in Nodes : CheckDemoted(n)
    \/ \E n \in Nodes : Decide(n)
    \/ \E n \in Nodes : LeaderTick(n)
    \/ \E n \in Nodes, p \in Nodes : SendAppendEntries(n, p)
    \/ \E n \in Nodes : EndTick(n)
    \/ \E m \in msgs : DeliverRequestVote(m)
    \/ \E m \in msgs : DeliverAppendEntries(m)

\* the processes clients post tasks and registrations to: the Queen the
\* Drones are started with (--queen-host), and the Drones
Known(p) == p = 1 \/ larve_mode[p] = DRONE

Next ==
    \/ NextCluster
    \/ \E n \in Nodes : MonitorProbe(n)
    \/ \E n \in Nodes : MonitorEvict(n)
    \/ \E p \in Nodes : larve_mode[p] = QUEEN /\ ClientHealthz(p)
    \/ \E p \in Nodes, i \in 1..2 : larve_mode[p] = QUEEN /\ ClientRequestVote(p, i)
    \/ \E p \in Nodes, i \in 1..3 : larve_mode[p] = QUEEN /\ ClientAppendEntries(p, i)
    \/ \E p \in Nodes, i \in 0..3 : Known(p) /\ ClientRegister(p, i)
    \/ \E p \in Nodes, i \in 1..3, n \in Nodes :
          Known(p) /\ ClientSubmitTask(p, i, Address(n))
    \/ \E p \in Nodes, i \in 1..3 : Known(p) /\ ClientSubmitTask(p, i, "")
    \/ \E p \in Nodes, i \in 1..3 : Known(p) /\ ClientDoTask(p, i)
    \/ \E n \in Nodes : larve_mode[n] = DRONE /\ Crash(n)

\* a Queen among Drones, or two Queens and a Drone, and their clients
Spec == Init /\ [][Next]_vars

\* three Queens, each started with the other two in --queen-list
InitCluster == Boot(Cluster3)
SpecCluster == InitCluster /\ [][NextCluster]_vars

\* a 3-Queen cluster that has elected Queen 1 in term 1 and is quiet after
\* the Leader's first heartbeat round (a state SpecCluster reaches)
Elected ==
    /\ larve_mode = Cluster3.mode /\ queens = Cluster3.queens
    /\ raft_state = [n \in Nodes |-> IF n = 1 THEN LEADER ELSE FOLLOWER]
    /\ raft_term = [n \in Nodes |-> 1]
    /\ raft_election_timeout = [n \in Nodes |-> ElectionTimeoutMin]
    /\ last_heartbeat = [n \in Nodes |-> ClockStep]
    /\ pc = [n \in Nodes |-> "loop"]
    /\ todo = [n \in Nodes |-> {}]
    /\ ret_list = [n \in Nodes |-> [p \in Nodes \ {n} |-> IF n = 1 THEN 1 ELSE 0]]
    /\ num_votes = [n \in Nodes |-> IF n = 1 THEN 3 ELSE 0]
    /\ msgs = {}
    /\ drones = [n \in Nodes |-> EmptyRegistry]
    /\ drones_lock = [n \in Nodes |-> FALSE]
    /\ mon_pc = [n \in Nodes |-> "sleep"]
    /\ to_remove = [n \in Nodes |-> {}]
    /\ now = ClockStep
    /\ up = [n \in Nodes |-> TRUE]
    /\ served = TRUE
    /\ event = NoEvent

\* the elected cluster, whose Leader may be killed; the threads of a running
\* process keep running, requests in flight are answered or fail, time passes
NextFailover ==
    \/ NextCluster
    \/ \E m \in msgs : TransportError(m)
    \/ \E n \in Nodes : raft_state[n] = LEADER /\ Crash(n)

FairFailover ==
    /\ WF_vars(Tick)
    /\ \A n \in Nodes :
          /\ WF_vars(ElectionTimeout(n)) /\ WF_vars(CandidateEntry(n))
          /\ WF_vars(Tally(n)) /\ WF_vars(CheckDemoted(n)) /\ WF_vars(Decide(n))
          /\ WF_vars(LeaderTick(n)) /\ WF_vars(EndTick(n))
          /\ \A p \in Nodes :
                WF_vars(SendVoteRequest(n, p)) /\ WF_vars(SendAppendEntries(n, p))
    /\ WF_vars(\E m \in msgs : DeliverRequestVote(m))
    /\ WF_vars(\E m \in msgs : DeliverAppendEntries(m))
    /\ WF_vars(\E m \in msgs : TransportError(m))

SpecFailover == Elected /\ [][NextFailover]_vars /\ FairFailover

\* ---- the claims ---------------------------------------------------------
Queens == {n \in Nodes : larve_mode[n] = QUEEN}
RaftPaths == {"/request_vote", "/append_entries"}

\* the votes granted in the round of n: the peers that answered 2xx, and n
Granted(n) == SumOver(ret_list[n], queens[n]) + 1

\* C1: no two distinct Queens are both in LEADER state with the same
\* currentTerm.
C1_OneLeaderPerTerm ==
    \A a \in Queens, b \in Queens :
        (a # b /\ raft_state[a] = LEADER /\ raft_state[b] = LEADER)
            => raft_term[a] # raft_term[b]

\* C2: every step of the driver and of the handlers leaves raft_term of
\* every Queen greater than or equal to what it was.
C2_TermNeverDecreases ==
    [][\A n \in Nodes : raft_term'[n] >= raft_term[n]]_vars

\* a Candidate has just adopted the term of an /append_entries, after the
\* driver incremented its term and a /request_vote made the sender Leader
C2_Witness ==
    /\ event.path = "/append_entries" /\ event.status = 200
    /\ event.old_state = CANDIDATE
    /\ event.old_term >= 1
    /\ raft_term[event.node] = event.term

\* C3: after a well-formed /request_vote or /append_entries carrying a term
\* above currentTerm has been handled, currentTerm is at least that term.
C3_AdoptsHigherTerm ==
    (event.path \in RaftPaths /\ event.wf /\ event.term > event.old_term)
        => raft_term[event.node] >= event.term

\* C4: a Leader that has handled a well-formed /request_vote or
\* /append_entries carrying a term above its currentTerm is a Follower.
C4_LeaderStepsDown ==
    (event.path \in RaftPaths /\ event.wf /\ event.old_state = LEADER
        /\ event.term > event.old_term)
        => raft_state[event.node] = FOLLOWER

\* C5: a well-formed /request_vote with term T on a Queen with currentTerm C
\* is granted with currentTerm set to T when T > C, and answered 300 with
\* currentTerm unchanged when T <= C; the role is unchanged and lastHeartbeat
\* is the current time in both cases.
C5_RequestVote ==
    (event.path = "/request_vote" /\ event.wf)
        => /\ IF event.term > event.old_term
              THEN event.status = 200 /\ raft_term[event.node] = event.term
              ELSE event.status = 300 /\ raft_term[event.node] = event.old_term
           /\ raft_state[event.node] = event.old_state
           /\ last_heartbeat[event.node] = now

\* a request whose term equals currentTerm has just been rejected
C5_Witness ==
    /\ event.path = "/request_vote" /\ event.wf
    /\ event.term = event.old_term /\ event.term >= 1
    /\ event.status = 300

\* C6: a Candidate that was not demoted during its round becomes Leader if
\* and only if the votes granted (2xx answers plus its own) are strictly
\* more than half of |peers| + 1, and Follower otherwise.
C6_StrictMajority ==
    (event.path = "raft" /\ event.old_state = CANDIDATE)
        => /\ raft_state[event.node] \in {LEADER, FOLLOWER}
           /\ raft_state[event.node] = LEADER
                <=> 2 * Granted(event.node) > Cardinality(queens[event.node]) + 1

C8_NoSuccessor ==
    (event.path = "raft" /\ ~up[1] /\ ret_list[event.node][1] = 0)
        => Granted(event.node) <= 2 /\ raft_state[event.node] = FOLLOWER

\* C9: in a monitoring cycle of a Leader, a registered drone that does not
\* answer /healthz is marked for eviction, and the drones marked are absent
\* from the registry after the eviction pass.
C9_UnreachableEvicted ==
    /\ event.path = "monitor:probe"
          => \A k \in DOMAIN drones[event.node] :
                ~up[HostOf(k)] => k \in to_remove[event.node]
    /\ event.path = "monitor:evict"
          => \A k \in to_remove[event.node] : k \notin DOMAIN drones[event.node]

\* C10: a Drone answers every /submit_task and /register with 400, changes no
\* registry and forwards nothing; a Queen answers every /do_task with 400.
C10_RoleGating ==
    /\ \A p \in Nodes : larve_mode[p] = DRONE => drones[p] = EmptyRegistry
    /\ (event.path \in {"/submit_task", "/register"}
            /\ larve_mode[event.node] = DRONE)
          => event.status = 400 /\ event.fwd = ""
                /\ drones[event.node] = event.old_drones
    /\ (event.path = "/do_task" /\ larve_mode[event.node] = QUEEN)
          => event.status = 400

\* a Drone has just refused a well-formed /submit_task
C10_Witness ==
    /\ event.path = "/submit_task" /\ larve_mode[event.node] = DRONE
    /\ event.wf /\ event.text = "hello"
    /\ event.status = 400
\* C11: every name in a registry is "drone-" + sha1hex of its address; a
\* /register that is accepted leaves one entry for each address registered
\* so far, and leaves the registry as it was when the address was in it.
C11_RegisterIdempotent ==
    /\ \A p \in Nodes : \A a \in DOMAIN drones[p] :
          drones[p][a] = "drone-" \o sha1_hexdigest(a)
    /\ (event.path = "/register" /\ event.status = 200)
          => /\ DOMAIN drones[event.node]
                    = DOMAIN event.old_drones \cup {event.address}
             /\ \A a \in DOMAIN event.old_drones :
                    drones[event.node][a] = event.old_drones[a]
             /\ event.address \in DOMAIN event.old_drones
                    => drones[event.node] = event.old_drones

\* an address that was in the registry has just been registered again, next
\* to another drone
C11_Witness ==
    /\ event.path = "/register" /\ event.status = 200
    /\ event.address \in DOMAIN event.old_drones
    /\ Cardinality(DOMAIN drones[event.node]) = 2
\* C12: a /submit_task on a Queen and a /do_task on a Drone whose text is
\* missing or empty is answered with 400, and the /submit_task selects no
\* drone and forwards nothing.
C12_EmptyTextRejected ==
    /\ (event.path = "/submit_task" /\ larve_mode[event.node] = QUEEN
            /\ event.text = "")
          => event.status = 400 /\ event.fwd = ""
    /\ (event.path = "/do_task" /\ larve_mode[event.node] = DRONE
            /\ event.text = "")
          => event.status = 400
\* C13: a well-formed /submit_task on a Queen whose registry is not empty is
\* answered OK whatever becomes of the forward, and the task goes to one
\* drone that was in the registry.
C13_AlwaysAcknowledged ==
    (event.path = "/submit_task" /\ event.wf /\ event.text # ""
        /\ larve_mode[event.node] = QUEEN /\ DOMAIN event.old_drones # {})
        => event.status = 200 /\ event.fwd \in DOMAIN event.old_drones

\* C14: a well-formed /submit_task on a Queen whose registry is empty is
\* answered with a failure, forwards nothing, leaves the registry empty and
\* leaves the registry lock free for later requests.
C14_EmptyRegistryFails ==
    (event.path = "/submit_task" /\ event.wf /\ event.text # ""
        /\ larve_mode[event.node] = QUEEN /\ DOMAIN event.old_drones = {})
        => /\ event.status # 200 /\ event.fwd = ""
           /\ drones[event.node] = EmptyRegistry
           /\ ~drones_lock[event.node]
\* C15: a request that misses a required field, to /request_vote,
\* /append_entries, /register, /submit_task or /do_task, is answered with 400
\* and leaves role, currentTerm, lastHeartbeat and registry as they were.
C15_MalformedNoChange ==
    (event.path \in {"/request_vote", "/append_entries", "/register",
                     "/submit_task", "/do_task"} /\ ~event.wf)
        => /\ event.status = 400
           /\ raft_state[event.node] = event.old_state
           /\ raft_term[event.node] = event.old_term
           /\ last_heartbeat[event.node] = event.old_hb
           /\ drones[event.node] = event.old_drones
\* C16: what /healthz reports is last_heartbeat as the handler leaves it, and
\* no step of the driver or of a handler lowers last_heartbeat, so that the
\* values successive /healthz responses of a process report never decrease.
C16_HealthzMonotonic ==
    [][\A p \in Nodes :
          /\ last_heartbeat'[p] >= last_heartbeat[p]
          /\ (event'.path = "/healthz" /\ event'.node = p)
                => event'.reported = last_heartbeat'[p]]_vars

\* a /healthz has just reported a later time than the one an earlier write
\* of the driver or of a handler had left
C16_Witness ==
    /\ event.path = "/healthz" /\ larve_mode[event.node] = QUEEN
    /\ event.old_hb > 0 /\ event.reported > event.old_hb
    /\ raft_term[event.node] >= 1
\* C17: a round whose Candidate was demoted to Follower by an /append_entries
\* after it entered the round ends with the node Follower, whatever votes it
\* collected.
C17_DemotedStaysFollower ==
    (event.path = "raft" /\ event.old_state = FOLLOWER)
        => raft_state[event.node] = FOLLOWER

\* a round has just ended in Follower although its peers granted enough
\* votes to win it: the node was demoted while it waited for the answers
C17_Witness ==
    /\ event.path = "raft" /\ event.old_state = FOLLOWER
    /\ HasMajority(Granted(event.node), votes_needed(event.node))
    /\ num_votes[event.node] = 0
    /\ raft_state[event.node] = FOLLOWER
\* C18: a well-formed /append_entries with term T on a Candidate with
\* currentTerm C makes it Follower with currentTerm T and lastHeartbeat now
\* and is answered OK when T >= C; it is answered 400 and leaves role,
\* currentTerm and lastHeartbeat as they were when T < C.
C18_CandidateAppendEntries ==
    (event.path = "/append_entries" /\ event.wf /\ event.old_state = CANDIDATE)
        => IF event.term >= event.old_term
           THEN /\ event.status = 200
                /\ raft_state[event.node] = FOLLOWER
                /\ raft_term[event.node] = event.term
                /\ last_heartbeat[event.node] = now
           ELSE /\ event.status = 400
                /\ raft_state[event.node] = CANDIDATE
                /\ raft_term[event.node] = event.old_term
                /\ last_heartbeat[event.node] = event.old_hb

\* a Candidate has just refused the heartbeat of a Leader of a lower term
C18_Witness ==
    /\ event.path = "/append_entries" /\ event.wf
    /\ event.old_state = CANDIDATE
    /\ event.term >= 1 /\ event.term < event.old_term
    /\ event.status = 400
\* C19: no step changes raft_state of a Queen that is Leader, and the only
\* changes of raft_state are Follower to Candidate, Candidate to Follower
\* and Candidate to Leader.
C19_LeaderAbsorbing ==
    [][\A n \in Nodes :
          /\ raft_state[n] = LEADER => raft_state'[n] = LEADER
          /\ raft_state'[n] # raft_state[n]
                => <<raft_state[n], raft_state'[n]>>
                      \in {<<FOLLOWER, CANDIDATE>>, <<CANDIDATE, FOLLOWER>>,
                           <<CANDIDATE, LEADER>>}]_vars

\* a Leader has just accepted an /append_entries of a higher term than its
\* own and is still Leader
C19_Witness ==
    /\ event.path = "/append_entries" /\ event.wf /\ event.status = 200
    /\ event.old_state = LEADER /\ event.term > event.old_term
    /\ raft_state[event.node] = LEADER
\* C20: a /submit_task or /register that took the registry lock has released
\* it when it answers, and the lock is free after the eviction pass of a
\* monitoring cycle.
C20_LockReleased ==
    /\ (event.path \in {"/submit_task", "/register"} /\ event.status # 400)
          => ~drones_lock[event.node]
    /\ event.path = "monitor:evict" => ~drones_lock[event.node]

\* what makes the failure of C20 permanent: a lock that is held while the
\* monitor is outside its cycle is held by no thread, and no step frees it
C20_NeverFreed ==
    [][\A p \in Nodes :
          (drones_lock[p] /\ mon_pc[p] = "sleep") => drones_lock'[p]]_vars
====
